---- MODULE Spec2Model ----
(***************************************************************************)
(* State-machine model of the question-answering engine (src/qa_engine.py) *)
(* and of its construction in src/app.py.                                  *)
(*                                                                         *)
(* Python strings are TLA+ strings; the string operations the engine uses  *)
(* (lower, split, in, slicing, join, strip, str(int)) are computed         *)
(* character by character.  The per-user mapping (a defaultdict, which     *)
(* keeps insertion order) is a sequence of <<key, bucket>> pairs.          *)
(***************************************************************************)
EXTENDS Integers, Sequences, FiniteSets, TLC

VARIABLES
    source,         \* the remote message source the engine is pointed at
    llm_provider,   \* self.llm_provider
    llm_model,      \* self.llm_model (None while the attribute is unset)
    messages,       \* self.messages
    user_messages,  \* self.user_messages
    skip,           \* _fetch_messages: skip
    retry_count,    \* _fetch_messages: retry_count
    pc,             \* "fetch", "loaded", "serving" or "raised"
    requests,       \* history of the page requests of the running load
    calls,          \* the answer_question calls waiting for the provider
    ret             \* what the last call on the engine computed and returned

vars == <<source, llm_provider, llm_model, messages, user_messages, skip,
          retry_count, pc, requests, calls, ret>>

(***************************************************************************)
(* Python values and string operations                                     *)
(***************************************************************************)
\* An Optional[str] is None or Some(s): None is no string, whatever the string
None == <<>>
Some(s) == <<s>>
\* the truth value of an Optional[str]
Truthy(v) == v # None /\ v # Some("")

Char(s, i) == SubSeq(s, i, i)

\* A string of the model is a string of characters up to U+00FF, the ones a
\* string of this module can hold; str.lower and str.isspace are given on them.
UpperLetters == "ABCDEFGHIJKLMNOPQRSTUVWXYZÀÁÂÃÄÅÆÇÈÉÊËÌÍÎÏÐÑÒÓÔÕÖØÙÚÛÜÝÞ"
LowerLetters == "abcdefghijklmnopqrstuvwxyzàáâãäåæçèéêëìíîïðñòóôõöøùúûüýþ"
UpperSet == {Char(UpperLetters, i) : i \in 1..Len(UpperLetters)}
LowerOf == [c \in UpperSet |->
              Char(LowerLetters,
                   CHOOSE i \in 1..Len(UpperLetters) : Char(UpperLetters, i) = c)]

\* the characters c with c.isspace(): space, \t, \n, \r, \f, and written as
\* themselves U+000B, U+001C, U+001D, U+001E, U+001F, U+0085 and U+00A0
Whitespace == {" ", "\t", "\n", "\r", "\f", "", "", "", "", "", "", " "}

LowerChar(c) == IF c \in UpperSet THEN LowerOf[c] ELSE c

\* str.lower()
RECURSIVE Lower(_)
Lower(s) == IF s = "" THEN "" ELSE LowerChar(Char(s, 1)) \o Lower(SubSeq(s, 2, Len(s)))

\* sub in s
In(sub, s) == \E i \in 1..(Len(s) - Len(sub) + 1) : SubSeq(s, i, i + Len(sub) - 1) = sub

\* str.split(): the maximal runs of non-whitespace characters, in order
RECURSIVE SplitFrom(_, _, _)
SplitFrom(s, i, cur) ==
    IF i > Len(s) THEN (IF cur = "" THEN <<>> ELSE <<cur>>)
    ELSE IF Char(s, i) \in Whitespace
         THEN (IF cur = "" THEN <<>> ELSE <<cur>>) \o SplitFrom(s, i + 1, "")
         ELSE SplitFrom(s, i + 1, cur \o Char(s, i))
Split(s) == SplitFrom(s, 1, "")

\* str.strip()
RECURSIVE LStrip(_)
LStrip(s) == IF s # "" /\ Char(s, 1) \in Whitespace THEN LStrip(SubSeq(s, 2, Len(s))) ELSE s
RECURSIVE RStrip(_)
RStrip(s) == IF s # "" /\ Char(s, Len(s)) \in Whitespace THEN RStrip(SubSeq(s, 1, Len(s) - 1)) ELSE s
Strip(s) == RStrip(LStrip(s))

\* s[:n]
Prefix(s, n) == SubSeq(s, 1, IF Len(s) < n THEN Len(s) ELSE n)

\* sep.join(parts)
RECURSIVE Join(_, _)
Join(sep, parts) ==
    IF parts = <<>> THEN ""
    ELSE IF Len(parts) = 1 THEN parts[1]
    ELSE parts[1] \o sep \o Join(sep, Tail(parts))

\* str(n) for n >= 0
Digits == "0123456789"
RECURSIVE IntToStr(_)
IntToStr(n) == IF n < 10 THEN Char(Digits, n + 1)
               ELSE IntToStr(n \div 10) \o Char(Digits, (n % 10) + 1)

SetOf(seq) == {seq[i] : i \in 1..Len(seq)}

(***************************************************************************)
(* dict / defaultdict(list), insertion ordered: a sequence of <<key, value>>*)
(***************************************************************************)
HasKey(d, k) == \E i \in 1..Len(d) : d[i][1] = k
KeyIndex(d, k) == CHOOSE i \in 1..Len(d) : d[i][1] = k
Keys(d) == [i \in 1..Len(d) |-> d[i][1]]

\* defaultdict.__getitem__: a missing key is created with an empty list
GetItem(d, k) == IF HasKey(d, k) THEN d ELSE Append(d, <<k, <<>>>>)
Bucket(d, k) == d[KeyIndex(d, k)][2]

\* dict.get(k, default): never creates the key
DictGet(d, k, default) == IF HasKey(d, k) THEN Bucket(d, k) ELSE default

\* self.user_messages[k].append(msg)
BucketAppend(d, k, msg) ==
    LET d1 == GetItem(d, k)
        i == KeyIndex(d1, k)
    IN [d1 EXCEPT ![i] = <<k, Append(d1[i][2], msg)>>]

(***************************************************************************)
(* The remote message source (external collaborator): a corpus of `size`   *)
(* messages served in pages; which users write, in which order, whether an *)
(* item is malformed and what `total` it reports are its parameters.       *)
(***************************************************************************)
limit == 100
max_retries == 3

MaxRequests == 4

Sizes == {0, 50, 100, 150}

\* `authors`: which order the users first appear in; `malformed_at`: the
\* position of an item that lacks its user_name field (0: none); `stamps`:
\* whether every item has its own timestamp or all share one, in which case
\* the source serves equal records at several positions
Sources ==
    [size : Sizes, authors : {"A"}, total_mode : {"exact"}, malformed_at : {0},
     stamps : {"distinct"}]
    \cup [size : {50}, authors : {"A"}, total_mode : {"absent"}, malformed_at : {0},
          stamps : {"distinct"}]
    \cup [size : {150}, authors : {"A"}, total_mode : {"stale"}, malformed_at : {0},
          stamps : {"distinct"}]
    \cup [size : {50}, authors : {"B"}, total_mode : {"exact"}, malformed_at : {0},
          stamps : {"distinct"}]
    \cup [size : {150}, authors : {"A"}, total_mode : {"exact"}, malformed_at : {3},
          stamps : {"distinct"}]
    \cup [size : {50}, authors : {"A"}, total_mode : {"exact"}, malformed_at : {0},
          stamps : {"same"}]

Authors(order) ==
    IF order = "B" THEN <<"Leyla Novak", "Layla Hassan", "Amira Khan">>
    ELSE <<"Layla Hassan", "Amira Khan", "Leyla Novak">>

Texts == <<"Book a trip to London", "I own two cars", "Travel to Paris",
           "My favorite restaurant is Nobu", "Hello there">>

Item(src, i) ==
    LET body == [message |-> Texts[((i - 1) % Len(Texts)) + 1],
                 timestamp |-> "2024-01-15T08:00:00."
                                  \o (IF src.stamps = "same" THEN "0" ELSE IntToStr(i))]
    IN IF i = src.malformed_at THEN body
       ELSE [user_name |-> Authors(src.authors)[((i - 1) % 3) + 1],
             message |-> body.message, timestamp |-> body.timestamp]

PageItems(src, sk, lim) ==
    LET left == src.size - sk
        n == IF left < 0 THEN 0 ELSE IF left < lim THEN left ELSE lim
    IN [k \in 1..n |-> Item(src, sk + k)]

\* the JSON body of a 200 response to GET ?skip=sk&limit=lim
PageBody(src, sk, lim) ==
    CASE src.total_mode = "exact"  -> [items |-> PageItems(src, sk, lim), total |-> src.size]
      [] src.total_mode = "stale"  -> [items |-> PageItems(src, sk, lim), total |-> 50]
      [] src.total_mode = "absent" -> [items |-> PageItems(src, sk, lim)]

\* a 200 response whose JSON body has no "items" key
ErrorBody == [detail |-> "Not Found"]

(***************************************************************************)
(* QAEngine.__init__ up to the call of _fetch_messages                     *)
(***************************************************************************)
\* os.environ as a dict: no key at all, both keys without a model name, and
\* an empty OpenAI key beside an Anthropic key with ANTHROPIC_MODEL set
Environments ==
    {<<>>,
     <<<<"OPENAI_API_KEY", "sk-1">>, <<"ANTHROPIC_API_KEY", "sk-2">>>>,
     <<<<"OPENAI_API_KEY", "">>, <<"ANTHROPIC_API_KEY", "sk-2">>,
       <<"ANTHROPIC_MODEL", "claude-3-haiku-20240307">>>>}

\* os.environ.get(key): an Optional[str]
EnvGet(env, key) == IF HasKey(env, key) THEN Some(Bucket(env, key)) ELSE None

\* QAEngine._detect_llm_provider
detect_llm_provider(env) ==
    IF Truthy(EnvGet(env, "OPENAI_API_KEY")) THEN "openai"
    ELSE IF Truthy(EnvGet(env, "ANTHROPIC_API_KEY")) THEN "anthropic"
    ELSE "fallback"

\* what importing the provider's SDK and constructing its client do (lines
\* 54-55 and 64-65): they succeed, the package is missing, or the
\* constructor raises
SDKOutcomes == {"ok", "missing", "init_raises"}

\* QAEngine._initialize_llm: self.llm_provider and self.llm_model as it leaves
\* them; the except branches (lines 58-60, 68-70) fall back and leave
\* llm_model unset, as fallback mode does
initialize_llm(env, provider, sdk) ==
    IF provider = "openai"
    THEN (IF sdk = "ok"
          THEN [llm_provider |-> "openai",
                llm_model |-> Some(DictGet(env, "OPENAI_MODEL", "gpt-4-turbo-preview"))]
          ELSE [llm_provider |-> "fallback", llm_model |-> None])
    ELSE IF provider = "anthropic"
    THEN (IF sdk = "ok"
          THEN [llm_provider |-> "anthropic",
                llm_model |-> Some(DictGet(env, "ANTHROPIC_MODEL",
                                           "claude-3-sonnet-20240229"))]
          ELSE [llm_provider |-> "fallback", llm_model |-> None])
    ELSE [llm_provider |-> provider, llm_model |-> None]

\* lines 33-34
Configured(env, sdk) ==
    /\ llm_provider = initialize_llm(env, detect_llm_provider(env), sdk).llm_provider
    /\ llm_model = initialize_llm(env, detect_llm_provider(env), sdk).llm_model

Init ==
    /\ source \in Sources
    /\ \E env \in Environments, sdk \in SDKOutcomes : Configured(env, sdk)
    /\ messages = <<>>
    /\ user_messages = <<>>
    /\ skip = 0
    /\ retry_count = 0
    /\ pc = "fetch"
    /\ requests = <<>>
    /\ calls = {}
    /\ ret = [op |-> "__init__"]

(***************************************************************************)
(* QAEngine._fetch_messages: one action per page request                   *)
(***************************************************************************)
\* lines 104-105: the body of `for msg in data['items']` for one item; a
\* KeyError on msg['user_name'] leaves the append of line 104 done
ProcessItem(st, msg) ==
    IF st.raised THEN st
    ELSE IF "user_name" \notin DOMAIN msg
    THEN [messages |-> Append(st.messages, msg), user_messages |-> st.user_messages,
          raised |-> TRUE]
    ELSE [messages |-> Append(st.messages, msg),
          user_messages |-> BucketAppend(st.user_messages, msg.user_name, msg),
          raised |-> FALSE]

\* lines 103-105: the loop over items[lo..hi], in order (halved to keep the
\* evaluation shallow)
RECURSIVE ProcessItems(_, _, _, _)
ProcessItems(st, items, lo, hi) ==
    IF lo > hi THEN st
    ELSE IF lo = hi THEN ProcessItem(st, items[lo])
    ELSE LET mid == (lo + hi) \div 2
             left == ProcessItems(st, items, lo, mid)
         IN IF left.raised THEN left ELSE ProcessItems(left, items, mid + 1, hi)

\* GotAll with a strict comparison at line 110
GotAll_Strict(n, data) == IF "total" \in DOMAIN data THEN n > data.total ELSE FALSE

\* line 110: len(self.messages) >= data.get('total', float('inf'))
GotAll(n, data) == IF "total" \in DOMAIN data THEN n >= data.total ELSE FALSE

\* Break with retry_count initialised once, before the outer loop, instead of
\* at line 82
Break_KeepsCount(rc) ==
    IF rc >= max_retries THEN [pc |-> "loaded", retry_count |-> rc]
    ELSE [pc |-> "fetch", retry_count |-> rc]

\* a `break` out of the retry loop: lines 123-125 end the load if the budget
\* is used up, otherwise the outer loop starts over at line 82
Break(rc) ==
    IF rc >= max_retries THEN [pc |-> "loaded", retry_count |-> rc]
    ELSE [pc |-> "fetch", retry_count |-> 0]

Logged(outcome, fetched, data) ==
    [skip |-> skip, outcome |-> outcome,
     has_items |-> "items" \in DOMAIN data,
     items |-> IF "items" \in DOMAIN data THEN Len(data.items) ELSE 0,
     fetched |-> fetched,
     has_total |-> "total" \in DOMAIN data,
     total |-> IF "total" \in DOMAIN data THEN data.total ELSE 0]

CanRequest == pc = "fetch" /\ Len(requests) < MaxRequests

\* requests.get raises RequestException (lines 116-121)
FetchTransportError ==
    /\ CanRequest
    /\ retry_count' = retry_count + 1
    /\ pc' = IF retry_count + 1 >= max_retries THEN "loaded" ELSE "fetch"
    /\ requests' = Append(requests, Logged("error", Len(messages), ErrorBody))
    /\ UNCHANGED <<source, llm_provider, llm_model, messages, user_messages, skip, calls, ret>>

\* response.status_code != 200 (lines 91-93)
FetchBadStatus ==
    /\ CanRequest
    /\ pc' = Break(retry_count).pc
    /\ retry_count' = Break(retry_count).retry_count
    /\ requests' = Append(requests, Logged("status", Len(messages), ErrorBody))
    /\ UNCHANGED <<source, llm_provider, llm_model, messages, user_messages, skip, calls, ret>>

\* a 200 response with JSON body `data` (lines 95-114)
Processed(r, data) ==
    IF r.raised
    THEN [messages |-> r.messages, user_messages |-> r.user_messages,
          skip |-> skip, retry_count |-> retry_count, pc |-> "raised"]
    ELSE IF GotAll(Len(r.messages), data)
    THEN [messages |-> r.messages, user_messages |-> r.user_messages,
          skip |-> skip, retry_count |-> retry_count, pc |-> "loaded"]
    ELSE [messages |-> r.messages, user_messages |-> r.user_messages,
          skip |-> skip + limit,
          retry_count |-> Break(retry_count).retry_count, pc |-> Break(retry_count).pc]

HandlePage(data) ==
    IF "items" \notin DOMAIN data \/ Len(data.items) = 0
    THEN [messages |-> messages, user_messages |-> user_messages, skip |-> skip,
          retry_count |-> retry_count, pc |-> "loaded"]
    ELSE Processed(ProcessItems([messages |-> messages, user_messages |-> user_messages,
                                 raised |-> FALSE], data.items, 1, Len(data.items)),
                   data)

Handled(h, data) ==
    /\ messages' = h.messages
    /\ user_messages' = h.user_messages
    /\ skip' = h.skip
    /\ retry_count' = h.retry_count
    /\ pc' = h.pc
    /\ requests' = Append(requests, Logged("page", Len(h.messages), data))

FetchPage ==
    /\ CanRequest
    /\ \E data \in {PageBody(source, skip, limit), ErrorBody} : Handled(HandlePage(data), data)
    /\ UNCHANGED <<source, llm_provider, llm_model, calls, ret>>

\* _fetch_messages has returned: __init__ logs the counts (line 38) and app.py
\* keeps the engine (lines 29-30); the locals of the load are gone
EngineReady ==
    /\ pc = "loaded"
    /\ pc' = "serving"
    /\ skip' = 0
    /\ retry_count' = 0
    /\ requests' = <<>>
    /\ ret' = [op |-> "__init__", value |-> <<Len(messages), Len(user_messages)>>]
    /\ UNCHANGED <<source, llm_provider, llm_model, messages, user_messages, calls>>

(***************************************************************************)
(* rapidfuzz.fuzz.ratio(a, b): the normalized Indel similarity,            *)
(* 100 * (1 - (len(a) + len(b) - 2*LCS(a, b)) / (len(a) + len(b))), kept   *)
(* as the exact fraction 100 * num / den                                   *)
(***************************************************************************)
Max2(a, b) == IF a >= b THEN a ELSE b

MaxOf(S) == CHOOSE m \in S : \A n \in S : n <= m

\* the longest-common-subsequence table, row by row: LCSRow(a, b, i)[j + 1]
\* is the LCS length of a[1..i] and b[1..j]; a[i] is either left out or
\* paired with an equal b[k], k <= j
RECURSIVE LCSRow(_, _, _)
LCSRow(a, b, i) ==
    IF i = 0 THEN [j \in 1..(Len(b) + 1) |-> 0]
    ELSE LET prev == LCSRow(a, b, i - 1)
         IN [j \in 1..(Len(b) + 1) |->
               MaxOf({prev[j]} \cup {prev[k] + 1 : k \in {k \in 1..(j - 1) : Char(b, k) = Char(a, i)}})]

LCSLen(a, b) == LCSRow(a, b, Len(a))[Len(b) + 1]

ratio(a, b) ==
    IF Len(a) + Len(b) = 0 THEN [num |-> 1, den |-> 1]
    ELSE [num |-> 2 * LCSLen(a, b), den |-> Len(a) + Len(b)]

ScoreGt(x, y) == x.num * y.den > y.num * x.den
\* score >= t for an integer t
ScoreAtLeast(x, t) == 100 * x.num >= t * x.den
Zero == [num |-> 0, den |-> 1]

(***************************************************************************)
(* QAEngine._fuzzy_match_user                                              *)
(***************************************************************************)
threshold == 75

\* SubstringMatch with only the first disjunct of line 136
SubstringMatch_NameInQuery(user, query_lower) == In(Lower(user), query_lower)

\* line 136
SubstringMatch(user, query_lower) ==
    In(Lower(user), query_lower) \/ In(query_lower, Lower(user))

\* ScanTokens with `>=` at line 151, so that a later equal score takes over
RECURSIVE ScanTokens_LastWins(_, _, _, _, _)
ScanTokens_LastWins(best, user, first_name, tokens, j) ==
    IF j > Len(tokens) THEN best
    ELSE LET score == ratio(first_name, tokens[j])
         IN IF ~ScoreGt(best.best_score, score)
            THEN ScanTokens_LastWins([best_score |-> score, best_match |-> Some(user)],
                                     user, first_name, tokens, j + 1)
            ELSE ScanTokens_LastWins(best, user, first_name, tokens, j + 1)

\* lines 149-153: the inner loop over the query tokens
RECURSIVE ScanTokens(_, _, _, _, _)
ScanTokens(best, user, first_name, tokens, j) ==
    IF j > Len(tokens) THEN best
    ELSE LET score == ratio(first_name, tokens[j])
         IN IF ScoreGt(score, best.best_score)
            THEN ScanTokens([best_score |-> score, best_match |-> Some(user)],
                            user, first_name, tokens, j + 1)
            ELSE ScanTokens(best, user, first_name, tokens, j + 1)

\* lines 144-153: the loop over the users, in the dict's iteration order
RECURSIVE ScanUsers(_, _, _, _)
ScanUsers(best, users, tokens, i) ==
    IF i > Len(users) THEN best
    ELSE ScanUsers(ScanTokens(best, users[i], Lower(Split(users[i])[1]), tokens, 1),
                   users, tokens, i + 1)

\* lines 135-137: the first user, in the dict's iteration order, that matches
FirstSubstringMatch(users, query_lower, i) ==
    users[CHOOSE k \in i..Len(users) :
            /\ SubstringMatch(users[k], query_lower)
            /\ \A j \in i..(k - 1) : ~SubstringMatch(users[j], query_lower)]

\* lines 155-159
AboveThreshold(best) ==
    IF ScoreAtLeast(best.best_score, threshold) THEN best.best_match ELSE None

MatchIn(users, query_lower) ==
    IF \E k \in 1..Len(users) : SubstringMatch(users[k], query_lower)
    THEN Some(FirstSubstringMatch(users, query_lower, 1))
    ELSE AboveThreshold(ScanUsers([best_score |-> Zero, best_match |-> None],
                                  users, Split(query_lower), 1))

fuzzy_match_user(um, query) == MatchIn(Keys(um), Lower(query))

(***************************************************************************)
(* QAEngine._keyword_retrieval                                             *)
(***************************************************************************)
top_k == 20

Words(text) == SetOf(Split(Lower(text)))

\* lines 196-201: (overlap, msg) for the messages that share a word
Scored(msgs, question_words) ==
    SelectSeq([i \in 1..Len(msgs) |->
                 <<Cardinality(question_words \cap Words(msgs[i].message)), msgs[i]>>],
              LAMBDA e : e[1] > 0)

\* SortDescending without reverse=True at line 204
RECURSIVE SortAscendingFrom(_, _, _)
SortAscendingFrom(scored, lo, hi) ==
    IF lo > hi THEN <<>>
    ELSE SelectSeq(scored, LAMBDA e : e[1] = lo) \o SortAscendingFrom(scored, lo + 1, hi)

SortDescending_Ascending(scored, hi) == SortAscendingFrom(scored, 1, hi)

\* list.sort(reverse=True, key=score): descending and stable, so the entries
\* of each score keep their order; scores lie in 1..hi
RECURSIVE SortDescending(_, _)
SortDescending(scored, hi) ==
    IF hi < 1 THEN <<>>
    ELSE SelectSeq(scored, LAMBDA e : e[1] = hi) \o SortDescending(scored, hi - 1)

\* line 205: [msg for score, msg in scored_messages[:top_k]]
TopMessages(sorted, k) ==
    [i \in 1..(IF Len(sorted) < k THEN Len(sorted) ELSE k) |-> sorted[i][2]]

RetrieveWords(msgs, question_words, k) ==
    TopMessages(SortDescending(Scored(msgs, question_words), Cardinality(question_words)), k)

keyword_retrieval(msgs, question, k) == RetrieveWords(msgs, Words(question), k)

(***************************************************************************)
(* QAEngine._retrieve_context                                              *)
(***************************************************************************)
\* line 182
ContextLine(msg) ==
    "[" \o Prefix(msg.timestamp, 10) \o "] " \o msg.user_name \o ": " \o msg.message

\* "\n".join of parts[lo..hi] (halved to keep the evaluation shallow)
RECURSIVE JoinLines(_, _, _)
JoinLines(parts, lo, hi) ==
    IF lo > hi THEN ""
    ELSE IF lo = hi THEN parts[lo]
    ELSE JoinLines(parts, lo, (lo + hi) \div 2) \o "\n"
         \o JoinLines(parts, ((lo + hi) \div 2) + 1, hi)

\* lines 179-186
Retrieved(user_name, by_user, relevant_messages, um) ==
    [user_name |-> user_name, by_user |-> by_user,
     source_messages |-> relevant_messages,
     context_text |-> JoinLines([i \in 1..Len(relevant_messages) |->
                                   ContextLine(relevant_messages[i])],
                                1, Len(relevant_messages)),
     user_messages |-> um]

\* ContextOf reading the bucket under the lowercased name
ContextOf_LoweredKey(um, msgs, question, user_name) ==
    IF Truthy(user_name) /\ HasKey(um, user_name[1])
    THEN Retrieved(user_name, TRUE,
                   Bucket(GetItem(um, Lower(user_name[1])), Lower(user_name[1])),
                   GetItem(um, Lower(user_name[1])))
    ELSE Retrieved(user_name, FALSE, keyword_retrieval(msgs, question, top_k), um)

\* lines 169-176; user_messages is the mapping as the accesses leave it
ContextOf(um, msgs, question, user_name) ==
    IF Truthy(user_name) /\ HasKey(um, user_name[1])
    THEN Retrieved(user_name, TRUE, Bucket(GetItem(um, user_name[1]), user_name[1]),
                   GetItem(um, user_name[1]))
    ELSE Retrieved(user_name, FALSE, keyword_retrieval(msgs, question, top_k), um)

retrieve_context(um, msgs, question) ==
    ContextOf(um, msgs, question, fuzzy_match_user(um, question))

(***************************************************************************)
(* The answer generator                                                    *)
(***************************************************************************)
NoInformation == "I couldn't find any relevant information to answer your question."
Apology == "I apologize, but I encountered an error while processing your question. Please try again."
NeedKey == "I apologize, but I need an LLM API key to answer complex questions. Please configure OPENAI_API_KEY or ANTHROPIC_API_KEY."

\* what the provider's chat endpoint does with one call: it returns a text
\* or the SDK raises
LLMOutcomes == {[raises |-> FALSE, text |-> "\f Layla is going to London. \n"],
                [raises |-> TRUE, text |-> ""]}

\* [m for m in messages if word in m['message'].lower()]
Mentions(msgs, word) == SelectSeq(msgs, LAMBDA m : In(word, Lower(m.message)))

\* line 291
TripMessages(msgs) ==
    SelectSeq(msgs, LAMBDA m : In("trip", Lower(m.message)) \/ In("travel", Lower(m.message)))

\* "; ".join([m['message'] for m in relevant[:3]])
FirstThree(relevant) ==
    Join("; ", [i \in 1..(IF Len(relevant) < 3 THEN Len(relevant) ELSE 3) |->
                  relevant[i].message])

BasedOn(user_name, relevant) ==
    "Based on " \o user_name \o "'s messages: " \o FirstThree(relevant)

\* line 307
Generic(user_name, msgs) ==
    "I found " \o IntToStr(Len(msgs)) \o " message(s) from " \o user_name
    \o ", but I need an LLM API key to provide a detailed answer. Please configure OPENAI_API_KEY or ANTHROPIC_API_KEY."

\* lines 298-300
CarAnswer(user_name, relevant) ==
    IF relevant # <<>>
    THEN "Found " \o IntToStr(Len(relevant)) \o " message(s) from " \o user_name
         \o " mentioning cars. However, I need an LLM to provide a detailed answer."
    ELSE "I don't have enough information to answer that question about "
         \o user_name \o "."

\* lines 292-293, 304-305: fall through to line 307 when nothing is relevant
BasedOnOrGeneric(user_name, relevant, msgs) ==
    IF relevant # <<>> THEN BasedOn(user_name, relevant) ELSE Generic(user_name, msgs)

\* lines 286-307
FallbackAnswer(question_lower, user_name, msgs) ==
    IF msgs = <<>> THEN "I don't have any messages from " \o user_name \o "."
    ELSE IF In("trip", question_lower) \/ In("travel", question_lower)
            \/ In("when", question_lower)
    THEN BasedOnOrGeneric(user_name, TripMessages(msgs), msgs)
    ELSE IF In("car", question_lower) \/ In("how many", question_lower)
    THEN CarAnswer(user_name, Mentions(msgs, "car"))
    ELSE IF In("restaurant", question_lower) \/ In("favorite", question_lower)
    THEN BasedOnOrGeneric(user_name, Mentions(msgs, "restaurant"), msgs)
    ELSE Generic(user_name, msgs)

\* lines 277-284
FallbackFor(um, question, user_name) ==
    IF ~Truthy(user_name) THEN NeedKey
    ELSE FallbackAnswer(Lower(question), user_name[1], DictGet(um, user_name[1], <<>>))

\* QAEngine._generate_fallback
generate_fallback(um, question) == FallbackFor(um, question, fuzzy_match_user(um, question))

\* QAEngine._generate_answer_with_llm once the provider's call has ended with
\* `llm`: lines 255 and 267 strip the text, lines 219-221 catch what the SDK
\* raises
generate_with_provider(llm) == IF llm.raises THEN Apology ELSE Strip(llm.text)

(***************************************************************************)
(* QAEngine.answer_question and the counters                               *)
(***************************************************************************)
MaxInFlight == 1

Questions == {"", "la", "layla hassan trip", "When is Layla planning her trip",
              "lyla car", "ami restaurant", "book trip Paris cars", "weather"}

\* the record of what a call found and returned
Result(question, r, generator_calls, generated, answer) ==
    [op |-> "answer_question", question |-> question,
     user_name |-> r.user_name, by_user |-> r.by_user,
     source_messages |-> r.source_messages, context_text |-> r.context_text,
     generator_calls |-> generator_calls, generated |-> generated,
     answer |-> answer]

\* a call that returns: the mapping as its accesses leave it, and its record
Outcome(r, generator_calls, generated, answer, question) ==
    [step |-> "return", user_messages |-> r.user_messages,
     ret |-> Result(question, r, generator_calls, generated, answer)]

\* lines 320-322
Generated(r, question, answer) == Outcome(r, 1, Some(answer), answer, question)

\* a call that has retrieved its context (line 314) and now waits for the
\* provider (lines 246 and 259)
Waiting(r, question) ==
    [step |-> "call", user_messages |-> r.user_messages,
     call |-> [question |-> question, user_name |-> r.user_name,
               by_user |-> r.by_user, source_messages |-> r.source_messages,
               context_text |-> r.context_text]]

\* lines 209-217: the generator is entered
Generate(provider, question, r) ==
    IF provider \in {"openai", "anthropic"}
    THEN Waiting(r, question)
    ELSE Generated(r, question, generate_fallback(r.user_messages, question))

\* AnswerFrom without the early return of lines 316-317
AnswerFrom_NoEarlyReturn(provider, question, r) == Generate(provider, question, r)

\* lines 316-320
AnswerFrom(provider, question, r) ==
    IF r.context_text = ""
    THEN Outcome(r, 0, None, NoInformation, question)
    ELSE Generate(provider, question, r)

\* QAEngine.answer_question up to its return or to the provider's call
answer_question(provider, um, msgs, question) ==
    AnswerFrom(provider, question, retrieve_context(um, msgs, question))

Proceeds(a) ==
    /\ user_messages' = a.user_messages
    /\ IF a.step = "call"
       THEN /\ calls' = calls \cup {a.call}
            /\ ret' = ret
       ELSE /\ calls' = calls
            /\ ret' = a.ret

\* a request thread runs answer_question until it returns or blocks in the
\* provider's SDK; at most MaxInFlight such threads wait at a time
AnswerQuestion ==
    /\ pc = "serving"
    /\ Cardinality(calls) < MaxInFlight
    /\ \E question \in Questions :
         Proceeds(answer_question(llm_provider, user_messages, messages, question))
    /\ UNCHANGED <<source, llm_provider, llm_model, messages, skip, retry_count, pc,
                   requests>>

\* the provider's call of a waiting thread ends; the thread returns the answer
\* (lines 255, 267, 219-221, 322)
ProviderResponds ==
    /\ pc = "serving"
    /\ \E call \in calls, llm \in LLMOutcomes :
         /\ calls' = calls \ {call}
         /\ ret' = Result(call.question, call, 1, Some(generate_with_provider(llm)),
                          generate_with_provider(llm))
    /\ UNCHANGED <<source, llm_provider, llm_model, messages, user_messages, skip,
                   retry_count, pc, requests>>

GetMessageCount ==
    /\ pc = "serving"
    /\ ret' = [op |-> "get_message_count", value |-> Len(messages)]
    /\ UNCHANGED <<source, llm_provider, llm_model, messages, user_messages, skip,
                   retry_count, pc, requests, calls>>

GetUserCount ==
    /\ pc = "serving"
    /\ ret' = [op |-> "get_user_count", value |-> Len(user_messages)]
    /\ UNCHANGED <<source, llm_provider, llm_model, messages, user_messages, skip,
                   retry_count, pc, requests, calls>>

\* lines 334-343; getattr(self, 'llm_model', None)
get_stats(provider, model, um, msgs) ==
    [total_messages |-> Len(msgs),
     total_users |-> Len(um),
     users |-> Keys(um),
     messages_per_user |-> [i \in 1..Len(um) |-> <<um[i][1], Len(um[i][2])>>],
     llm_provider |-> provider,
     llm_model |-> model]

GetStats ==
    /\ pc = "serving"
    /\ ret' = [op |-> "get_stats", value |-> get_stats(llm_provider, llm_model, user_messages, messages)]
    /\ UNCHANGED <<source, llm_provider, llm_model, messages, user_messages, skip,
                   retry_count, pc, requests, calls>>

Next ==
    \/ FetchTransportError
    \/ FetchBadStatus
    \/ FetchPage
    \/ EngineReady
    \/ AnswerQuestion
    \/ ProviderResponds
    \/ GetMessageCount
    \/ GetUserCount
    \/ GetStats

Spec == Init /\ [][Next]_vars

(***************************************************************************)
(* Properties of the load                                                  *)
(***************************************************************************)
\* the number of transport failures at the end of the request log
RECURSIVE TrailingErrors(_)
TrailingErrors(log) ==
    IF log = <<>> \/ log[Len(log)].outcome # "error" THEN 0
    ELSE 1 + TrailingErrors(SubSeq(log, 1, Len(log) - 1))

\* a load without failures: every request was answered 200 with a page
Clean(log) == \A i \in 1..Len(log) : log[i].outcome = "page" /\ log[i].has_items

\* the two stop conditions of lines 98 and 110, read off a logged response
Stops(r) == r.items = 0 \/ (r.has_total /\ r.fetched >= r.total)

\* C1: a response whose status is not 200 ends the load at that point: the
\* store keeps the messages accumulated so far and no further request is
\* issued, for that page or any later one.
C1_BadStatusEndsLoad ==
    \A i \in 1..Len(requests) :
        requests[i].outcome = "status" =>
            /\ i = Len(requests)
            /\ Len(messages) = requests[i].fetched

\* C2: transport failures are retried within a budget of 3 per page: the
\* counter counts the consecutive failures of the current page and is 0 on
\* every new page, no page sees a 4th consecutive failed attempt, and the 3rd
\* consecutive failure ends the load with exactly the messages of the pages
\* before it.
C2_RetryBudget ==
    /\ retry_count <= max_retries
    /\ pc = "fetch" => retry_count = TrailingErrors(requests)
    /\ TrailingErrors(requests) <= max_retries
    /\ TrailingErrors(requests) = max_retries =>
           /\ pc = "loaded"
           /\ skip = requests[Len(requests)].skip
           /\ messages = PageItems(source, 0, skip)

C2_Witness ==
    /\ pc = "loaded"
    /\ TrailingErrors(requests) = max_retries
    /\ skip = limit
    /\ Len(messages) = limit
    /\ requests[1].outcome = "page"

\* C3: without failures the offsets requested are 0, 100, 200, ... in order;
\* the load stops exactly on a page of zero items or when the running count
\* reaches the reported total, and nothing is requested afterwards; a source
\* reporting its exact total N >= 1 is read in ceil(N / 100) requests.
C3_CleanPagination ==
    (Clean(requests) /\ pc \in {"fetch", "loaded"}) =>
        /\ \A i \in 1..Len(requests) : requests[i].skip = (i - 1) * limit
        /\ \A i \in 1..Len(requests) :
               Stops(requests[i]) <=> (i = Len(requests) /\ pc = "loaded")
        /\ (pc = "loaded" /\ source.total_mode = "exact" /\ source.size >= 1) =>
               Len(requests) = (source.size + limit - 1) \div limit

C3_Witness ==
    /\ pc = "loaded"
    /\ Clean(requests)
    /\ source.total_mode = "exact"
    /\ source.size = 150
    /\ Len(requests) = 2
    /\ Len(messages) = 150

\* C4: the load never raises, whatever the source returns, an item without
\* user_name included.
C4_LoadNeverRaises == pc # "raised"

\* the author of a stored message
UserOf(m) == IF "user_name" \in DOMAIN m THEN Some(m.user_name) ELSE None

\* the sum of the bucket sizes
RECURSIVE BucketTotal(_)
BucketTotal(d) == IF d = <<>> THEN 0 ELSE Len(d[1][2]) + BucketTotal(Tail(d))

\* C5: in every reachable state the buckets' messages all occur in the full
\* sequence, the keys are exactly the user_name values of the full sequence,
\* each bucket is that user's messages in fetch order, and the bucket sizes
\* add up to the length of the full sequence.
C5_StoreConsistent ==
    /\ \A k \in 1..Len(user_messages) :
           /\ SetOf(user_messages[k][2]) \subseteq SetOf(messages)
           /\ user_messages[k][2]
                = SelectSeq(messages, LAMBDA m : UserOf(m) = Some(user_messages[k][1]))
    /\ {Some(user_messages[k][1]) : k \in 1..Len(user_messages)}
         = {UserOf(messages[i]) : i \in 1..Len(messages)}
    /\ BucketTotal(user_messages) = Len(messages)

(***************************************************************************)
(* Properties of the service                                               *)
(***************************************************************************)
\* C6: once the load has finished no operation changes the full sequence or
\* the per-user mapping; in particular a lookup creates no key.
C6_StoreReadOnly ==
    [][(pc \in {"loaded", "serving"})
          => (messages' = messages /\ user_messages' = user_messages)]_vars

C6_Witness ==
    /\ pc = "serving"
    /\ ret.op = "answer_question"
    /\ ret.user_name = None
    /\ ~ret.by_user
    /\ ret.generator_calls = 1
    /\ user_messages # <<>>

\* C7: with an empty context the answer is the fixed no-information sentence
\* and the generator is not invoked; otherwise the generator is invoked
\* once and its result is returned unchanged.
C7_EmptyContextGuard ==
    ret.op = "answer_question" =>
        IF ret.context_text = ""
        THEN ret.generator_calls = 0 /\ ret.answer = NoInformation
        ELSE ret.generator_calls = 1 /\ ret.generated = Some(ret.answer)

C7_Witness ==
    /\ pc = "serving"
    /\ ret.op = "answer_question"
    /\ messages # <<>>
    /\ ret.context_text = ""
    /\ ret.answer = NoInformation
    /\ ret.generator_calls = 0

\* the position at which a user first occurs in the full sequence
FirstSeen(user) == CHOOSE i \in 1..Len(messages) :
                       /\ UserOf(messages[i]) = Some(user)
                       /\ \A j \in 1..(i - 1) : UserOf(messages[j]) # Some(user)

\* the users whose lowercased name contains the lowercased question or is
\* contained in it
Qualifying(query_lower) ==
    {u \in SetOf(Keys(user_messages)) :
        In(Lower(u), query_lower) \/ In(query_lower, Lower(u))}

\* the first-seen user of a non-empty set of users
Earliest(users) == CHOOSE u \in users : \A v \in users : FirstSeen(u) <= FirstSeen(v)

\* C8: when some user qualifies in the substring pass, the user returned is
\* the qualifying user that was seen first in the load.
C8_SubstringFirstSeen ==
    (ret.op = "answer_question" /\ Qualifying(Lower(ret.question)) # {}) =>
        ret.user_name = Some(Earliest(Qualifying(Lower(ret.question))))

C8_Witness ==
    /\ ret.op = "answer_question"
    /\ ret.question = "la"
    /\ Cardinality(Qualifying("la")) = 2
    /\ ret.user_name = Some("Leyla Novak")

\* the best score of a user's first name against the tokens, as a fraction
TokenScores(user, tokens) ==
    {ratio(Lower(Split(user)[1]), tokens[j]) : j \in 1..Len(tokens)}

AllScores(tokens) ==
    UNION {TokenScores(u, tokens) : u \in SetOf(Keys(user_messages))}

TopScore(scores) == CHOOSE x \in scores : \A y \in scores : ~ScoreGt(y, x)

\* the users reaching score x on some token
Reaching(x, tokens) ==
    {u \in SetOf(Keys(user_messages)) :
        \E y \in TokenScores(u, tokens) : ~ScoreGt(x, y) /\ ~ScoreGt(y, x)}

FuzzyWinner(scores, tokens) ==
    IF scores = {} THEN None
    ELSE IF 100 * TopScore(scores).num < threshold * TopScore(scores).den THEN None
    ELSE Some(Earliest(Reaching(TopScore(scores), tokens)))

\* C9: when no user qualifies in the substring pass, the user returned is
\* the one with the highest fuzzy score if that score is at least 75, the
\* first-seen one among equals, and no user if the highest score is below 75.
C9_FuzzyBestFirstSeen ==
    (ret.op = "answer_question" /\ Qualifying(Lower(ret.question)) = {}) =>
        ret.user_name = FuzzyWinner(AllScores(Split(Lower(ret.question))),
                                    Split(Lower(ret.question)))

C9_Witness ==
    /\ ret.op = "answer_question"
    /\ ret.question = "lyla car"
    /\ Qualifying("lyla car") = {}
    /\ user_messages # <<>>
    /\ Keys(user_messages)[1] = "Leyla Novak"
    /\ ret.user_name = Some("Leyla Novak")
    /\ ratio("leyla", "lyla") = ratio("layla", "lyla")

\* the number of distinct lowercased tokens a message shares with a question
Overlap(question, m) == Cardinality(Words(question) \cap Words(m.message))

\* the first position after `after` at which the store holds a record equal
\* to m; 0 when there is none
NextPlace(m, after) ==
    LET S == {i \in (after + 1)..Len(messages) : messages[i] = m}
    IN IF S = {} THEN 0 ELSE CHOOSE i \in S : \A j \in S : i <= j

\* positions of the store that `result` can have been taken from: each
\* element gets the earliest position holding an equal record, searched after
\* its predecessor's position when the two have the same overlap and from the
\* start otherwise (records of different overlap are different records).
\* The store may hold equal records at several positions; taking the
\* earliest free one finds positions in corpus order whenever some choice
\* of positions is in corpus order.
RECURSIVE PlacesFrom(_, _, _, _)
PlacesFrom(question, result, i, acc) ==
    IF i > Len(result) THEN acc
    ELSE PlacesFrom(question, result, i + 1,
             Append(acc,
                    NextPlace(result[i],
                              IF i > 1 /\ Overlap(question, result[i - 1])
                                           = Overlap(question, result[i])
                              THEN acc[i - 1] ELSE 0)))

Places(question, result) == PlacesFrom(question, result, 1, <<>>)

\* overlaps do not increase along `result` and equal neighbours come from
\* increasing positions of the corpus (both relations are transitive, so
\* neighbours decide all pairs)
Ordered(question, result, places) ==
    \A i \in 1..(Len(result) - 1) :
        /\ Overlap(question, result[i]) >= Overlap(question, result[i + 1])
        /\ Overlap(question, result[i]) = Overlap(question, result[i + 1])
               => places[i] < places[i + 1]

\* no stored position outside `places` holds a message that beats the weakest
\* one returned, which in an ordered result is the last
NoneBetterLeftOut(question, result, places) ==
    result # <<>> =>
        \A p \in (1..Len(messages)) \ SetOf(places) :
            Overlap(question, messages[p]) <= Overlap(question, result[Len(result)])

KeywordResultAt(question, result, places) ==
    /\ Len(result) <= top_k
    /\ \A i \in 1..Len(result) :
           /\ places[i] \in 1..Len(messages)
           /\ Overlap(question, result[i]) >= 1
    /\ Ordered(question, result, places)
    /\ NoneBetterLeftOut(question, result, places)

KeywordResult(question, result) ==
    KeywordResultAt(question, result, Places(question, result))

\* C10: keyword retrieval returns at most 20 messages, each sharing a token
\* with the question, in non-increasing overlap with equal overlaps in
\* corpus order, and no message left out has a greater overlap than one
\* returned.
C10_KeywordRetrieval ==
    (ret.op = "answer_question" /\ ~ret.by_user) =>
        KeywordResult(ret.question, ret.source_messages)

C10_Witness ==
    /\ ret.op = "answer_question"
    /\ ~ret.by_user
    /\ Len(ret.source_messages) = top_k
    /\ Overlap(ret.question, ret.source_messages[1]) = 2
    /\ Overlap(ret.question, ret.source_messages[top_k]) = 1
    /\ \E p \in (1..Len(messages)) \ SetOf(Places(ret.question, ret.source_messages)) :
           Overlap(ret.question, messages[p]) = 1
    /\ \E i, j \in 1..top_k : i < j /\ ret.source_messages[i] = ret.source_messages[j]

====
